---- MODULE Spec2Model ----
(***************************************************************************)
(* Model of the guardrails adapter for LangChain chat models               *)
(* (withGuardrails and the validation client it calls).                    *)
(*                                                                         *)
(* One guarded call (invoke or stream) runs at a time, on the newest       *)
(* handle of a chain of bindTools / withConfig derivations; every await    *)
(* and every yield of the source is a step boundary.  The validation       *)
(* endpoint,                                                               *)
(* the underlying model and the consumer of a guarded stream are the       *)
(* environment: their replies are drawn from small sets.                   *)
(***************************************************************************)
EXTENDS Integers, Sequences, FiniteSets, TLC

----------------------------------------------------------------------------
(* Bounds of the model *)

\* fragments an underlying stream yields before it must end
MaxFragments == 3
\* largest chunkBatchSize a caller configures explicitly
MaxBatch == 2
\* bindTools / withConfig operations applied in a row to the base handle
MaxRewraps == 2

----------------------------------------------------------------------------
(* JavaScript values *)

Undefined == [t |-> "undefined"]
Null == [t |-> "null"]
Str(s) == [t |-> "string", v |-> s]
Num(n) == [t |-> "number", v |-> n]

\* falsy values among the ones the model uses
Falsy(v) == v = Undefined \/ v = Null \/ v = Str("") \/ v = Num(0)

\* mutant: || is taken for ??, so an empty string counts as supplied
OrElse_Nullish(v, d) == IF v = Null \/ v = Undefined THEN d ELSE v

\* a || d
OrElse(v, d) == IF Falsy(v) THEN d ELSE v

\* a ?? d
Nullish(v, d) == IF v = Null \/ v = Undefined THEN d ELSE v

\* destructuring default: { a = d } = obj
Default(v, d) == IF v = Undefined THEN d ELSE v

\* obj.p on an object that may lack the property
Prop(obj, p) == IF p \in DOMAIN obj THEN obj[p] ELSE Undefined

\* completion of an awaited call
Return(v) == [kind |-> "return", value |-> v]
Throw(e) == [kind |-> "throw", error |-> e]
Pending == [kind |-> "pending"]

----------------------------------------------------------------------------
(* Program constants *)

DEFAULT_CHUNK_BATCH_SIZE == 200
\* strings that are taken apart are sequences of tokens
DEFAULT_BASE_URL == <<"https://gr-prd.aporia.com">>
PROMPT_OVERRIDE == "[Prompt intercepted: custom response]"
RESPONSE_OVERRIDE == "[Response intercepted: custom override]"
APOLOGY == "I'm sorry, but I can't assist with that request."

----------------------------------------------------------------------------
(* Inputs of the environment *)

ProjectIds == {"proj"}
ApiKeys == {"key"}
BaseUrls == {Undefined, Str(<<"https://custom", "/", "/">>)}
BatchSizes == {Undefined} \cup {Num(n) : n \in 1..MaxBatch}

\* AporiaGuardrailsConfig
Configs ==
    [projectId : ProjectIds, apiKey : ApiKeys,
     chunkBatchSize : BatchSizes, baseUrl : BaseUrls]

\* the (input, options) pairs callers pass to invoke and stream
CallArgs ==
    { [input |-> "hello", options |-> Undefined],
      [input |-> "attack", options |-> Str("opts")] }

\* text of a streamed fragment or of a single-turn result
Contents == {"", "a", "b"}

Actions == {"modify", "passthrough", "block", "rephrase"}
Revised == {Null, Str(""), Str("safe")}

\* JSON bodies the validation endpoint answers with
ValidBodies ==
    [action : Actions \ {"passthrough"}, revised_response : Revised]
    \cup [action : {"passthrough"}, revised_response : {Null, Str("safe")}]
InvalidBodies ==
    { [action |-> "allow", revised_response |-> Null],
      [action |-> "block"] }

\* HTTP replies of the validation endpoint
HttpReplies ==
    { [ok |-> TRUE, status |-> 200, statusText |-> "OK", body |-> b] :
        b \in ValidBodies \cup InvalidBodies }
    \cup { [ok |-> FALSE, status |-> 500, statusText |-> "Internal Server Error",
             body |-> [action |-> "block", revised_response |-> Str("safe")]] }

\* errors the underlying model raises
ModelErrors ==
    { [name |-> "Error", code |-> Str("content_filter")],
      [name |-> "Error", code |-> Str("rate_limit")] }

----------------------------------------------------------------------------
(* Messages *)

\* new AIMessage(content) / new AIMessageChunk({content}) built by the adapter
NewAIMessage(content) == [cls |-> "AIMessage", content |-> content, by |-> "guard", id |-> 0]
NewAIMessageChunk(content) == [cls |-> "AIMessageChunk", content |-> content, by |-> "guard", id |-> 0]

\* objects produced by the underlying model; id tells the objects apart
ModelMessage(content) == [cls |-> "AIMessage", content |-> Str(content), by |-> "model", id |-> 1]
ModelChunk(content, i) == [cls |-> "AIMessageChunk", content |-> Str(content), by |-> "model", id |-> i]

\* extractMessages: the input converted to its chat messages
extractMessages(input) == << [role |-> "human", content |-> input] >>

\* _convertMessagesToOpenAIParams
ConvertMessages(messages) ==
    [i \in 1..Len(messages) |->
        [role |-> IF messages[i].role = "human" THEN "user" ELSE messages[i].role,
         content |-> messages[i].content]]

----------------------------------------------------------------------------
(* Validation client *)

RECURSIVE TrimTrailingSlashes(_)
\* baseUrl.replace(/\/+$/, "")
TrimTrailingSlashes(url) ==
    IF Len(url) > 0 /\ url[Len(url)] = "/"
    THEN TrimTrailingSlashes(SubSeq(url, 1, Len(url) - 1))
    ELSE url

\* GuardrailsResponseSchema.parse succeeds
SchemaAccepts(body) ==
    /\ "action" \in DOMAIN body
    /\ body.action \in Actions
    /\ "revised_response" \in DOMAIN body
    /\ body.revised_response.t \in {"string", "null"}

\* validateWithGuardrails up to its fetch: the request it sends
ValidationRequest(projectId, apiKey, messages, response, target, baseUrl) ==
    [url |-> TrimTrailingSlashes(baseUrl) \o <<"/", projectId, "/", "validate">>,
     method |-> "POST",
     apiKeyHeader |-> apiKey,
     body |-> [messages |-> ConvertMessages(messages),
               response |-> response,
               validation_target |-> target]]

\* mutant: the status of the reply is not looked at
ValidationResult_IgnoresStatus(res) ==
    IF SchemaAccepts(res.body) THEN Return(res.body) ELSE Throw([name |-> "ZodError"])

\* validateWithGuardrails after its fetch: what the reply makes of the call
ValidationResult(res) ==
    IF ~res.ok
    THEN Throw([name |-> "Error",
                message |-> <<"Guardrails validation failed:", res.status, res.statusText>>])
    ELSE IF SchemaAccepts(res.body)
         THEN Return(res.body)
         ELSE Throw([name |-> "ZodError"])

\* mutant: the prompt test forgets "rephrase"
PromptShouldBlock_NoRephrase(response) ==
    response.action = "block" \/ response.action = "modify"

\* the block test of createPromptCondition
PromptShouldBlock(response) ==
    response.action = "block" \/ response.action = "modify" \/ response.action = "rephrase"

\* mutant: the response test blocks on "block" alone
ResponseShouldBlock_OnlyBlock(guardrailsResponse) ==
    guardrailsResponse.action = "block"

\* the block test of createResponseCondition
ResponseShouldBlock(guardrailsResponse) ==
    \/ guardrailsResponse.action = "block"
    \/ guardrailsResponse.action = "modify"
    \/ guardrailsResponse.action = "rephrase"

\* createPromptCondition: the request of the check it runs
PromptConditionRequest(cfg, messages) ==
    ValidationRequest(cfg.projectId, cfg.apiKey, messages, "", "prompt", cfg.baseUrl.v)

\* mutant: a prompt check that fails lets the call through
PromptCondition_FailOpen(res) ==
    LET r == ValidationResult(res) IN
    IF r.kind = "throw" THEN Return([shouldBlock |-> FALSE, overrideResponse |-> Undefined])
    ELSE Return([shouldBlock |-> PromptShouldBlock(r.value),
                 overrideResponse |-> Nullish(r.value.revised_response, Undefined)])

\* createPromptCondition: its result for a reply of the endpoint
PromptCondition(res) ==
    LET r == ValidationResult(res) IN
    IF r.kind = "throw" THEN r
    ELSE Return([shouldBlock |-> PromptShouldBlock(r.value),
                 overrideResponse |-> Nullish(r.value.revised_response, Undefined)])

\* mutant: the response check is sent without the prompt messages
ResponseConditionRequest_NoPrompt(cfg, response, messages) ==
    ValidationRequest(cfg.projectId, cfg.apiKey, << >>, response.content.v,
                      "response", cfg.baseUrl.v)

\* createResponseCondition: the request of the check it runs
ResponseConditionRequest(cfg, response, messages) ==
    ValidationRequest(cfg.projectId, cfg.apiKey, messages, response.content.v,
                      "response", cfg.baseUrl.v)

\* createResponseCondition: its result for a reply of the endpoint
ResponseCondition(res) ==
    LET r == ValidationResult(res) IN
    IF r.kind = "throw" THEN r
    ELSE Return([shouldBlock |-> ResponseShouldBlock(r.value),
                 overrideResponse |-> Nullish(r.value.revised_response, Undefined)])

----------------------------------------------------------------------------
(* Interception layer: construction *)

\* withGuardrails: the closure of the Proxy it returns
withGuardrails(model, config) ==
    [target |-> model,
     projectId |-> config.projectId,
     apiKey |-> config.apiKey,
     chunkBatchSize |-> Default(config.chunkBatchSize, Num(DEFAULT_CHUNK_BATCH_SIZE)),
     baseUrl |-> Default(config.baseUrl, Str(DEFAULT_BASE_URL))]

\* the re-wrap of bindTools
RewrapBindTools(newModel, h) ==
    withGuardrails(newModel,
        [projectId |-> h.projectId, apiKey |-> h.apiKey,
         chunkBatchSize |-> h.chunkBatchSize, baseUrl |-> h.baseUrl])

\* mutant: the re-wrap of withConfig loses the batch size
RewrapWithConfig_DefaultBatch(newModel, h) ==
    withGuardrails(newModel,
        [projectId |-> h.projectId, apiKey |-> h.apiKey,
         chunkBatchSize |-> Undefined, baseUrl |-> h.baseUrl])

\* the re-wrap of withConfig
RewrapWithConfig(newModel, h) ==
    withGuardrails(newModel,
        [projectId |-> h.projectId, apiKey |-> h.apiKey,
         chunkBatchSize |-> h.chunkBatchSize, baseUrl |-> h.baseUrl])

----------------------------------------------------------------------------
(* Interception layer: every other property *)

\* properties of a model that the Proxy does not intercept: a method, a data
\* field and an accessor
OtherProps == {"batch", "verbose", "callKeys"}

PropertyKind(prop) ==
    CASE prop = "batch" -> "function"
      [] prop = "verbose" -> "data"
      [] prop = "callKeys" -> "accessor"

\* the Proxy that guards a model, as a `this` value distinct from every model
ProxyOf(target) == 0 - target

\* Reflect.get(target, prop, receiver): a data property is read off the target,
\* an accessor runs its getter with the receiver as this
ReflectGet(target, prop, receiver) ==
    CASE PropertyKind(prop) = "function" ->
            [t |-> "function", name |-> prop, of |-> target, boundThis |-> Undefined]
      [] PropertyKind(prop) = "data" ->
            [t |-> "value", name |-> prop, of |-> target, readBy |-> target]
      [] PropertyKind(prop) = "accessor" ->
            [t |-> "value", name |-> prop, of |-> target, readBy |-> receiver]

\* mutant: the fallback returns the function unbound
Fallback_Unbound(orig, target) ==
    orig

\* typeof orig === "function" ? orig.bind(target) : orig
Fallback(orig, target) ==
    IF orig.t = "function" THEN [orig EXCEPT !.boundThis = Num(target)] ELSE orig

\* the this of a call fn(...) made as a method of receiver: a bound function
\* keeps its bound this
ThisOfCall(fn, receiver) ==
    IF fn.boundThis = Undefined THEN receiver ELSE fn.boundThis.v

----------------------------------------------------------------------------
(* Interception layer: pure steps of invoke and stream *)

\* mutant: invoke forwards the input without the options
InvokeUnderlying_NoOptions(target, input, options) ==
    [op |-> "invoke", this |-> target, input |-> input, options |-> Undefined]

\* orig.call(target, input, options) of invoke
InvokeUnderlying(target, input, options) ==
    [op |-> "invoke", this |-> target, input |-> input, options |-> options]

\* orig.call(target, input, options) of stream
StreamUnderlying(target, input, options) ==
    [op |-> "stream", this |-> target, input |-> input, options |-> options]

\* mutant: any error that carries a code counts as a content-filter rejection
IsContentFilter_AnyCode(e) ==
    ~Falsy(e) /\ Prop(e, "code") # Undefined

\* e && e.code === "content_filter"
IsContentFilter(e) ==
    ~Falsy(e) /\ Prop(e, "code") = Str("content_filter")

\* mutant: the catch block turns every error into the apology
InvokeCatch_SwallowsAll(e) ==
    Return(NewAIMessage(Str(APOLOGY)))

\* the catch block of invoke
InvokeCatch(e) ==
    IF IsContentFilter(e) THEN Return(NewAIMessage(Str(APOLOGY))) ELSE Throw(e)

\* mutant: a blocked prompt falls back to the response default
PromptOverrideText_ResponseDefault(promptCheck) ==
    OrElse(promptCheck.overrideResponse, Str(RESPONSE_OVERRIDE))

\* the message returned on a blocked prompt
PromptOverrideText(promptCheck) ==
    OrElse(promptCheck.overrideResponse, Str(PROMPT_OVERRIDE))

\* mutant: a blocked response falls back to the prompt default
ResponseOverrideText_PromptDefault(responseCheck) ==
    OrElse(responseCheck.overrideResponse, Str(PROMPT_OVERRIDE))

\* the message returned on a blocked response
ResponseOverrideText(responseCheck) ==
    OrElse(responseCheck.overrideResponse, Str(RESPONSE_OVERRIDE))

\* mutant: the first batch boundary is not checked
BatchBoundary_SkipsFirst(count, batch) == count % batch.v = 0 /\ count # batch.v

\* chunkCount % chunkBatchSize === 0
BatchBoundary(count, batch) == count % batch.v = 0

\* mutant: the loop asks for two fragments at a time
RequestNext_Prefetch(n) ==
    n + 2

\* for await (const chunk of streamIter): one next() on the underlying iterator
RequestNext(n) ==
    n + 1

\* mutant: the test of the tail check is inverted
TailCheckNeeded_OnBoundary(last, count, batch) ==
    ~Falsy(last) /\ count % batch.v = 0

\* mutant: the tail check runs whenever a fragment was seen
TailCheckNeeded_Always(last, count, batch) ==
    ~Falsy(last)

\* mutant: the tail check never runs
TailCheckNeeded_Never(last, count, batch) ==
    FALSE

\* lastChunk && chunkCount % chunkBatchSize !== 0
TailCheckNeeded(last, count, batch) ==
    ~Falsy(last) /\ count % batch.v # 0

\* mutant: the accumulator keeps the newest fragment only
Accumulate_NewestOnly(acc, c) == OrElse(c.content, Str("")).v

\* accumulatedContent += chunk.content || ""
Accumulate(acc, c) == acc \o OrElse(c.content, Str("")).v

----------------------------------------------------------------------------
(* State *)

VARIABLES
    models,              \* underlying model instances, by index
    handle,              \* the newest guarded handle: the closure of its Proxy
    config0,             \* the configuration of the base wrap
    pc,                  \* where the guarded call in progress stands
    self,                \* the call in progress: kind, handle, input, options
    promptMsgs,          \* local of invoke and stream
    result,              \* local of invoke
    chunk,               \* loop variable of stream
    chunkCount,          \* local of stream
    lastChunk,           \* local of stream
    accumulatedContent,  \* local of stream
    streamIter,          \* the underlying stream: none, open, done, threw, closed
    source,              \* chunks the underlying stream has yielded
    pulls,               \* next() requests made on the underlying stream
    requests,            \* validation requests sent by the call in progress
    checks,              \* prompt and response checks started by the call in progress
    lastReply,           \* last reply of the validation endpoint
    modelCalls,          \* calls made on underlying models by the call in progress
    underlying,          \* completion of the call made on the underlying model
    emitted,             \* chunks handed to the consumer of the guarded stream
    outcome,             \* completion of the guarded call
    consumer,            \* the consumer of the guarded stream: idle, iterating, stopped
    covered,             \* fragments whose text a response check has answered passthrough on
    conc                 \* two guarded streams in flight on one handle (SpecConc)

vars == <<models, handle, config0, pc, self, promptMsgs, result, chunk, chunkCount, lastChunk,
          accumulatedContent, streamIter, source, pulls, requests, checks, lastReply,
          modelCalls, underlying, emitted, outcome, consumer, covered, conc>>

wrapVars == <<models, handle, config0>>
streamLocals == <<chunk, chunkCount, lastChunk, accumulatedContent>>

NoCall == [kind |-> "none"]
NoReply == [ok |-> FALSE, status |-> 0, statusText |-> "none"]
NoConc == << >>

\* the closure of the handle the call in progress was made on
Closure == self.handle

\* fetch: one request on the wire
Fetch(log, req) == Append(log, req)

\* mutant: a yielded chunk reaches the consumer twice
Yield_Twice(out, c) == Append(Append(out, c), c)

\* yield: one chunk handed to the consumer
Yield(out, c) == Append(out, c)

Init ==
    /\ \E config \in Configs :
        /\ models = << [via |-> "new", parent |-> 0] >>
        /\ handle = withGuardrails(1, config)
        /\ config0 = config
    /\ pc = "idle"
    /\ self = NoCall
    /\ promptMsgs = << >>
    /\ result = Undefined
    /\ chunk = Undefined
    /\ chunkCount = 0
    /\ lastChunk = Null
    /\ accumulatedContent = ""
    /\ streamIter = "none"
    /\ source = << >>
    /\ pulls = 0
    /\ requests = << >>
    /\ checks = 0
    /\ lastReply = NoReply
    /\ modelCalls = << >>
    /\ underlying = Pending
    /\ emitted = << >>
    /\ outcome = Pending
    /\ consumer = "idle"
    /\ covered = 0
    /\ conc = NoConc

----------------------------------------------------------------------------
(* bindTools and withConfig *)

\* guardedModel.bindTools(...args), on a model that has a bindTools function
BindTools ==
    /\ pc = "idle"
    /\ Len(models) <= MaxRewraps
    /\ models' = Append(models, [via |-> "bindTools", parent |-> handle.target])
    /\ handle' = RewrapBindTools(Len(models) + 1, handle)
    /\ UNCHANGED <<consumer, covered, conc, underlying, config0, pc, self, promptMsgs, result, streamLocals, streamIter, source,
                   pulls, requests, checks, lastReply, modelCalls, emitted, outcome>>

\* guardedModel.withConfig(cfg)
WithConfig ==
    /\ pc = "idle"
    /\ Len(models) <= MaxRewraps
    /\ models' = Append(models, [via |-> "withConfig", parent |-> handle.target])
    /\ handle' = RewrapWithConfig(Len(models) + 1, handle)
    /\ UNCHANGED <<consumer, covered, conc, underlying, config0, pc, self, promptMsgs, result, streamLocals, streamIter, source,
                   pulls, requests, checks, lastReply, modelCalls, emitted, outcome>>

\* guardedModel[prop], and guardedModel[prop](input, options) when it is a function
GetOther(prop, input, options) ==
    /\ pc = "idle"
    /\ self' = [kind |-> "other", handle |-> handle, input |-> input, options |-> options,
                prop |-> prop]
    /\ LET receiver == ProxyOf(handle.target)
           orig == ReflectGet(handle.target, prop, receiver)
           got == Fallback(orig, handle.target)
       IN  IF got.t = "function"
           THEN /\ modelCalls' = << [op |-> got.name, this |-> ThisOfCall(got, receiver),
                                     input |-> input, options |-> options] >>
                /\ underlying' = Return(Str("result"))
                /\ outcome' = underlying'
           ELSE /\ outcome' = Return(got)
                /\ UNCHANGED <<modelCalls, underlying>>
    /\ pc' = "done"
    /\ UNCHANGED <<consumer, covered, conc, wrapVars, promptMsgs, result, streamLocals, streamIter,
                   source, pulls, requests, checks, lastReply, emitted>>

\* the caller has taken the outcome of the call; the next call starts afresh
Settle ==
    /\ pc = "done"
    /\ pc' = "idle"
    /\ self' = NoCall
    /\ promptMsgs' = << >>
    /\ result' = Undefined
    /\ chunk' = Undefined
    /\ chunkCount' = 0
    /\ lastChunk' = Null
    /\ accumulatedContent' = ""
    /\ streamIter' = "none"
    /\ source' = << >>
    /\ pulls' = 0
    /\ requests' = << >>
    /\ checks' = 0
    /\ lastReply' = NoReply
    /\ modelCalls' = << >>
    /\ underlying' = Pending
    /\ emitted' = << >>
    /\ outcome' = Pending
    /\ consumer' = "idle"
    /\ covered' = 0
    /\ UNCHANGED <<wrapVars, conc>>

----------------------------------------------------------------------------
(* invoke *)

\* guardedModel.invoke(input, options), up to the await of the prompt check
CallInvoke(input, options) ==
    /\ pc = "idle"
    /\ self' = [kind |-> "invoke", handle |-> handle, input |-> input, options |-> options]
    /\ promptMsgs' = extractMessages(input)
    /\ requests' = Fetch(requests, PromptConditionRequest(handle, promptMsgs'))
    /\ checks' = checks + 1
    /\ pc' = "invoke:promptCheck"
    /\ UNCHANGED <<consumer, covered, conc, underlying, wrapVars, result, streamLocals, streamIter, source, pulls, lastReply,
                   modelCalls, emitted, outcome>>

\* the prompt check resolves
InvokePromptChecked(res) ==
    /\ pc = "invoke:promptCheck"
    /\ lastReply' = res
    /\ LET promptCheck == PromptCondition(res) IN
        IF promptCheck.kind = "throw"
        THEN /\ outcome' = promptCheck
             /\ pc' = "done"
             /\ UNCHANGED modelCalls
        ELSE IF promptCheck.value.shouldBlock
        THEN /\ outcome' = Return(NewAIMessage(PromptOverrideText(promptCheck.value)))
             /\ pc' = "done"
             /\ UNCHANGED modelCalls
        ELSE /\ modelCalls' =
                    Append(modelCalls, InvokeUnderlying(Closure.target, self.input, self.options))
             /\ pc' = "invoke:model"
             /\ UNCHANGED outcome
    /\ UNCHANGED <<consumer, covered, conc, underlying, wrapVars, self, promptMsgs, result, streamLocals, streamIter, source,
                   pulls, requests, checks, emitted>>

\* the underlying invoke resolves with a message
InvokeModelReturned(content) ==
    /\ pc = "invoke:model"
    /\ result' = ModelMessage(content)
    /\ requests' = Fetch(requests, ResponseConditionRequest(Closure, result', promptMsgs))
    /\ checks' = checks + 1
    /\ underlying' = Return(result')
    /\ pc' = "invoke:responseCheck"
    /\ UNCHANGED <<consumer, covered, conc, wrapVars, self, promptMsgs, streamLocals, streamIter, source, pulls,
                   lastReply, modelCalls, emitted, outcome>>

\* the underlying invoke rejects
InvokeModelThrew(e) ==
    /\ pc = "invoke:model"
    /\ outcome' = InvokeCatch(e)
    /\ result' = IF outcome'.kind = "return" THEN outcome'.value ELSE result
    /\ underlying' = Throw(e)
    /\ pc' = "done"
    /\ UNCHANGED <<consumer, covered, conc, wrapVars, self, promptMsgs, streamLocals, streamIter, source, pulls,
                   requests, checks, lastReply, modelCalls, emitted>>

\* the response check resolves
InvokeResponseChecked(res) ==
    /\ pc = "invoke:responseCheck"
    /\ lastReply' = res
    /\ LET responseCheck == ResponseCondition(res) IN
        IF responseCheck.kind = "throw"
        THEN outcome' = InvokeCatch(responseCheck.error)
        ELSE IF responseCheck.value.shouldBlock
        THEN outcome' = Return(NewAIMessage(ResponseOverrideText(responseCheck.value)))
        ELSE outcome' = Return(result)
    /\ pc' = "done"
    /\ UNCHANGED <<consumer, covered, conc, underlying, wrapVars, self, promptMsgs, result, streamLocals, streamIter, source,
                   pulls, requests, checks, modelCalls, emitted>>

----------------------------------------------------------------------------
(* stream *)

\* the code after the for-await loop: the tail check, or the end of the generator
AfterLoop ==
    IF TailCheckNeeded(lastChunk', chunkCount', Closure.chunkBatchSize)
    THEN /\ requests' = Fetch(requests,
                ResponseConditionRequest(Closure, NewAIMessage(Str(accumulatedContent')),
                                         promptMsgs))
         /\ checks' = checks + 1
         /\ pc' = "stream:tailCheck"
         /\ UNCHANGED outcome
    ELSE /\ outcome' = Return(Undefined)
         /\ pc' = "done"
         /\ UNCHANGED <<requests, checks>>

\* guardedModel.stream(input, options): the generator is created, nothing runs yet
CallStream(input, options) ==
    /\ pc = "idle"
    /\ self' = [kind |-> "stream", handle |-> handle, input |-> input, options |-> options]
    /\ pc' = "stream:start"
    /\ consumer' = "iterating"
    /\ UNCHANGED <<covered, conc, underlying, wrapVars, promptMsgs, result, streamLocals, streamIter, source, pulls,
                   requests, checks, lastReply, modelCalls, emitted, outcome>>

\* the consumer's first next(): the body runs up to the await of the prompt check
StreamBegin ==
    /\ pc = "stream:start"
    /\ promptMsgs' = extractMessages(self.input)
    /\ requests' = Fetch(requests, PromptConditionRequest(Closure, promptMsgs'))
    /\ checks' = checks + 1
    /\ pc' = "stream:promptCheck"
    /\ UNCHANGED <<consumer, covered, conc, underlying, wrapVars, self, result, streamLocals, streamIter, source, pulls,
                   lastReply, modelCalls, emitted, outcome>>

\* the prompt check resolves
StreamPromptChecked(res) ==
    /\ pc = "stream:promptCheck"
    /\ lastReply' = res
    /\ LET promptCheck == PromptCondition(res) IN
        IF promptCheck.kind = "throw"
        THEN /\ outcome' = promptCheck
             /\ pc' = "done"
             /\ UNCHANGED <<modelCalls, emitted>>
        ELSE IF promptCheck.value.shouldBlock
        THEN /\ emitted' =
                    Yield(emitted, NewAIMessageChunk(PromptOverrideText(promptCheck.value)))
             /\ pc' = "stream:yieldPromptOverride"
             /\ UNCHANGED <<modelCalls, outcome>>
        ELSE /\ modelCalls' =
                    Append(modelCalls, StreamUnderlying(Closure.target, self.input, self.options))
             /\ pc' = "stream:open"
             /\ UNCHANGED <<emitted, outcome>>
    /\ UNCHANGED <<consumer, covered, conc, underlying, wrapVars, self, promptMsgs, result, streamLocals, streamIter, source,
                   pulls, requests, checks>>

\* the consumer resumes the generator after the prompt override: return
StreamAfterPromptOverride ==
    /\ pc = "stream:yieldPromptOverride"
    /\ outcome' = Return(Undefined)
    /\ pc' = "done"
    /\ UNCHANGED <<consumer, covered, conc, underlying, wrapVars, self, promptMsgs, result, streamLocals, streamIter, source,
                   pulls, requests, checks, lastReply, modelCalls, emitted>>

\* the underlying stream() resolves: the loop asks for the first fragment
StreamOpened ==
    /\ pc = "stream:open"
    /\ streamIter' = "open"
    /\ chunkCount' = 0
    /\ lastChunk' = Null
    /\ accumulatedContent' = ""
    /\ pulls' = RequestNext(pulls)
    /\ underlying' = Return(Str("streamIter"))
    /\ pc' = "stream:next"
    /\ UNCHANGED <<consumer, covered, conc, wrapVars, self, promptMsgs, result, chunk, source, requests, checks,
                   lastReply, modelCalls, emitted, outcome>>

\* the underlying stream() rejects: nothing catches it
StreamOpenThrew(e) ==
    /\ pc = "stream:open"
    /\ outcome' = Throw(e)
    /\ underlying' = Throw(e)
    /\ pc' = "done"
    /\ UNCHANGED <<consumer, covered, conc, wrapVars, self, promptMsgs, result, streamLocals, streamIter, source,
                   pulls, requests, checks, lastReply, modelCalls, emitted>>

\* the underlying stream yields a fragment: the loop body up to its await or yield
StreamFragment(content) ==
    /\ pc = "stream:next"
    /\ Len(source) < MaxFragments
    /\ chunk' = ModelChunk(content, Len(source) + 1)
    /\ source' = Append(source, chunk')
    /\ chunkCount' = chunkCount + 1
    /\ lastChunk' = chunk'
    /\ accumulatedContent' = Accumulate(accumulatedContent, chunk')
    /\ IF BatchBoundary(chunkCount', Closure.chunkBatchSize)
       THEN /\ requests' = Fetch(requests,
                    ResponseConditionRequest(Closure,
                        NewAIMessage(Str(accumulatedContent')), promptMsgs))
            /\ checks' = checks + 1
            /\ pc' = "stream:batchCheck"
            /\ UNCHANGED emitted
       ELSE /\ emitted' = Yield(emitted, chunk')
            /\ pc' = "stream:yieldChunk"
            /\ UNCHANGED <<requests, checks>>
    /\ UNCHANGED <<consumer, covered, conc, underlying, wrapVars, self, promptMsgs, result, streamIter, pulls, lastReply,
                   modelCalls, outcome>>

\* the check at a batch boundary resolves
StreamBatchChecked(res) ==
    /\ pc = "stream:batchCheck"
    /\ lastReply' = res
    /\ covered' = IF res.ok /\ SchemaAccepts(res.body) /\ res.body.action = "passthrough"
                  THEN chunkCount ELSE covered
    /\ LET responseCheck == ResponseCondition(res) IN
        IF responseCheck.kind = "throw"
        THEN /\ outcome' = responseCheck
             /\ streamIter' = "closed"
             /\ pc' = "done"
             /\ UNCHANGED emitted
        ELSE IF responseCheck.value.shouldBlock
        THEN /\ emitted' =
                    Yield(emitted, NewAIMessageChunk(ResponseOverrideText(responseCheck.value)))
             /\ pc' = "stream:yieldOverride"
             /\ UNCHANGED <<outcome, streamIter>>
        ELSE /\ emitted' = Yield(emitted, chunk)
             /\ pc' = "stream:yieldChunk"
             /\ UNCHANGED <<outcome, streamIter>>
    /\ UNCHANGED <<consumer, conc, underlying, wrapVars, self, promptMsgs, result, streamLocals, source, pulls,
                   requests, checks, modelCalls>>

\* the consumer resumes the generator after a fragment: the loop asks for the next one
StreamAfterChunk ==
    /\ pc = "stream:yieldChunk"
    /\ pulls' = RequestNext(pulls)
    /\ pc' = "stream:next"
    /\ UNCHANGED <<consumer, covered, conc, underlying, wrapVars, self, promptMsgs, result, streamLocals, streamIter, source,
                   requests, checks, lastReply, modelCalls, emitted, outcome>>

\* the consumer resumes the generator after a mid-stream override: break
StreamAfterOverride ==
    /\ pc = "stream:yieldOverride"
    /\ streamIter' = "closed"
    /\ UNCHANGED streamLocals
    /\ AfterLoop
    /\ UNCHANGED <<consumer, covered, conc, underlying, wrapVars, self, promptMsgs, result, source, pulls, lastReply,
                   modelCalls, emitted>>

\* the underlying stream ends
StreamExhausted ==
    /\ pc = "stream:next"
    /\ streamIter' = "done"
    /\ UNCHANGED streamLocals
    /\ AfterLoop
    /\ UNCHANGED <<consumer, covered, conc, underlying, wrapVars, self, promptMsgs, result, source, pulls, lastReply,
                   modelCalls, emitted>>

\* the underlying stream rejects while iterated: nothing catches it
StreamThrew(e) ==
    /\ pc = "stream:next"
    /\ streamIter' = "threw"
    /\ outcome' = Throw(e)
    /\ pc' = "done"
    /\ UNCHANGED <<consumer, covered, conc, underlying, wrapVars, self, promptMsgs, result, streamLocals, source, pulls,
                   requests, checks, lastReply, modelCalls, emitted>>

\* the tail check resolves
StreamTailChecked(res) ==
    /\ pc = "stream:tailCheck"
    /\ lastReply' = res
    /\ covered' = IF res.ok /\ SchemaAccepts(res.body) /\ res.body.action = "passthrough"
                  THEN chunkCount ELSE covered
    /\ LET responseCheck == ResponseCondition(res) IN
        IF responseCheck.kind = "throw"
        THEN /\ outcome' = responseCheck
             /\ pc' = "done"
             /\ UNCHANGED emitted
        ELSE IF responseCheck.value.shouldBlock
        THEN /\ emitted' =
                    Yield(emitted, NewAIMessageChunk(ResponseOverrideText(responseCheck.value)))
             /\ pc' = "stream:yieldTailOverride"
             /\ UNCHANGED outcome
        ELSE /\ outcome' = Return(Undefined)
             /\ pc' = "done"
             /\ UNCHANGED emitted
    /\ UNCHANGED <<consumer, conc, underlying, wrapVars, self, promptMsgs, result, streamLocals, streamIter, source,
                   pulls, requests, checks, modelCalls>>

\* the consumer resumes the generator after the tail override: the generator ends
StreamAfterTailOverride ==
    /\ pc = "stream:yieldTailOverride"
    /\ outcome' = Return(Undefined)
    /\ pc' = "done"
    /\ UNCHANGED <<consumer, covered, conc, underlying, wrapVars, self, promptMsgs, result, streamLocals, streamIter, source,
                   pulls, requests, checks, lastReply, modelCalls, emitted>>

\* mutant: a consumer that stops is treated as the end of the loop, and the
\* code after the loop runs
ConsumerReturn_RunsTail ==
    /\ pc = "stream:yieldChunk"
    /\ streamIter' = "closed"
    /\ consumer' = "stopped"
    /\ UNCHANGED <<covered, conc, underlying, wrapVars, self, promptMsgs, result, streamLocals,
                   source, pulls, lastReply, modelCalls, emitted>>
    /\ AfterLoop

\* the consumer stops iterating: return() on the suspended generator
ConsumerReturn ==
    /\ pc \in {"stream:start", "stream:yieldPromptOverride", "stream:yieldChunk",
               "stream:yieldOverride", "stream:yieldTailOverride"}
    /\ streamIter' = IF streamIter = "open" THEN "closed" ELSE streamIter
    /\ outcome' = [kind |-> "return", value |-> Undefined, by |-> "consumer"]
    /\ pc' = "done"
    /\ consumer' = "stopped"
    /\ UNCHANGED <<covered, conc, underlying, wrapVars, self, promptMsgs, result, streamLocals, source, pulls,
                   requests, checks, lastReply, modelCalls, emitted>>

----------------------------------------------------------------------------
(* Specification *)

Next ==
    \/ BindTools
    \/ WithConfig
    \/ Settle
    \/ \E prop \in OtherProps : \E a \in CallArgs : GetOther(prop, a.input, a.options)
    \/ \E a \in CallArgs : CallInvoke(a.input, a.options)
    \/ \E res \in HttpReplies : InvokePromptChecked(res)
    \/ \E content \in Contents : InvokeModelReturned(content)
    \/ \E e \in ModelErrors : InvokeModelThrew(e)
    \/ \E res \in HttpReplies : InvokeResponseChecked(res)
    \/ \E a \in CallArgs : CallStream(a.input, a.options)
    \/ StreamBegin
    \/ \E res \in HttpReplies : StreamPromptChecked(res)
    \/ StreamAfterPromptOverride
    \/ StreamOpened
    \/ \E e \in ModelErrors : StreamOpenThrew(e)
    \/ \E content \in Contents : StreamFragment(content)
    \/ \E res \in HttpReplies : StreamBatchChecked(res)
    \/ StreamAfterChunk
    \/ StreamAfterOverride
    \/ StreamExhausted
    \/ \E e \in ModelErrors : StreamThrew(e)
    \/ \E res \in HttpReplies : StreamTailChecked(res)
    \/ StreamAfterTailOverride
    \/ ConsumerReturn

Spec == Init /\ [][Next]_vars

----------------------------------------------------------------------------
(* Two guarded calls in flight on one handle *)

\* the calls in flight
Calls == 1..2

\* the input of each call, and the fragment texts of the underlying streams
ConcInput(s) == IF s = 1 THEN "hello" ELSE "attack"
ConcContents == {"a", "b"}

\* replies of the validation endpoint: passthrough, block, and a failure
ConcReplies ==
    { [ok |-> TRUE, status |-> 200, statusText |-> "OK",
       body |-> [action |-> "passthrough", revised_response |-> Null]],
      [ok |-> TRUE, status |-> 200, statusText |-> "OK",
       body |-> [action |-> "block", revised_response |-> Str("safe")]],
      [ok |-> FALSE, status |-> 500, statusText |-> "Internal Server Error",
       body |-> [action |-> "block", revised_response |-> Str("safe")]] }

\* mutant: every call keeps its locals in the same place
Slot_Shared(s) ==
    1

\* promptMsgs, chunkCount, lastChunk, accumulatedContent are declared inside the
\* intercepting function: every call has locals of its own
Slot(s) ==
    s

NoLocals ==
    [promptMsgs |-> << >>, result |-> Undefined, chunk |-> Undefined, chunkCount |-> 0,
     lastChunk |-> Null, accumulatedContent |-> ""]

IdleCall ==
    [kind |-> "none", pc |-> "idle", input |-> "", source |-> << >>, requests |-> << >>,
     emitted |-> << >>, outcome |-> Pending]

\* every variable of a single call: untouched while two calls are followed
seqVars == <<models, handle, config0, pc, self, promptMsgs, result, chunk, chunkCount,
             lastChunk, accumulatedContent, streamIter, source, pulls, requests, checks,
             lastReply, modelCalls, underlying, emitted, outcome, consumer, covered>>

InitConc ==
    /\ \E config \in {c \in Configs : c.baseUrl = Undefined} :
        /\ models = << [via |-> "new", parent |-> 0] >>
        /\ handle = withGuardrails(1, config)
        /\ config0 = config
    /\ pc = "idle"
    /\ self = NoCall
    /\ promptMsgs = << >>
    /\ result = Undefined
    /\ chunk = Undefined
    /\ chunkCount = 0
    /\ lastChunk = Null
    /\ accumulatedContent = ""
    /\ streamIter = "none"
    /\ source = << >>
    /\ pulls = 0
    /\ requests = << >>
    /\ checks = 0
    /\ lastReply = NoReply
    /\ modelCalls = << >>
    /\ underlying = Pending
    /\ emitted = << >>
    /\ outcome = Pending
    /\ consumer = "idle"
    /\ covered = 0
    /\ conc = [calls |-> [s \in Calls |-> IdleCall], locals |-> [s \in Calls |-> NoLocals]]

\* the locals call s reads and writes
Locals(s) == conc.locals[Slot(s)]

\* call s moves on: its record and its locals change, nothing else does
ConcStep(s, call, locals) ==
    /\ conc' = [conc EXCEPT !.calls[s] = call, !.locals[Slot(s)] = locals]
    /\ UNCHANGED seqVars

\* guardedModel.invoke(input) or guardedModel.stream(input) and its first
\* next(): the messages are extracted and the prompt check is sent
ConcCall(s, kind) ==
    /\ conc.calls[s].pc = "idle"
    /\ LET msgs == extractMessages(ConcInput(s)) IN
        ConcStep(s,
            [conc.calls[s] EXCEPT !.kind = kind, !.input = ConcInput(s),
                                  !.pc = "promptCheck",
                                  !.requests = Fetch(@, PromptConditionRequest(handle, msgs))],
            [Locals(s) EXCEPT !.promptMsgs = msgs])

\* the prompt check of call s resolves
ConcPromptChecked(s, res) ==
    /\ conc.calls[s].pc = "promptCheck"
    /\ LET c == conc.calls[s]
           promptCheck == PromptCondition(res)
       IN  IF promptCheck.kind = "throw"
           THEN ConcStep(s, [c EXCEPT !.pc = "done", !.outcome = promptCheck], Locals(s))
           ELSE IF promptCheck.value.shouldBlock
           THEN IF c.kind = "invoke"
                THEN ConcStep(s,
                        [c EXCEPT !.pc = "done",
                                  !.outcome = Return(NewAIMessage(
                                                  PromptOverrideText(promptCheck.value)))],
                        Locals(s))
                ELSE ConcStep(s,
                        [c EXCEPT !.pc = "done",
                                  !.emitted = Yield(@, NewAIMessageChunk(
                                                  PromptOverrideText(promptCheck.value))),
                                  !.outcome = Return(Undefined)],
                        Locals(s))
           ELSE IF c.kind = "invoke"
                THEN ConcStep(s, [c EXCEPT !.pc = "model"], Locals(s))
                ELSE ConcStep(s, [c EXCEPT !.pc = "next"],
                        [Locals(s) EXCEPT !.chunkCount = 0, !.lastChunk = Null,
                                          !.accumulatedContent = ""])

\* the underlying invoke of call s returns: the response check is sent
ConcInvokeModelReturned(s, content) ==
    /\ conc.calls[s].pc = "model"
    /\ LET c == conc.calls[s]
           res == ModelMessage(content)
       IN  ConcStep(s,
               [c EXCEPT !.pc = "responseCheck", !.source = << res >>,
                         !.requests = Fetch(@, ResponseConditionRequest(handle, res,
                                                    Locals(s).promptMsgs))],
               [Locals(s) EXCEPT !.result = res])

\* the response check of the invoke of call s resolves
ConcInvokeResponseChecked(s, res) ==
    /\ conc.calls[s].pc = "responseCheck"
    /\ LET c == conc.calls[s]
           responseCheck == ResponseCondition(res)
           out == IF responseCheck.kind = "throw"
                  THEN InvokeCatch(responseCheck.error)
                  ELSE IF responseCheck.value.shouldBlock
                  THEN Return(NewAIMessage(ResponseOverrideText(responseCheck.value)))
                  ELSE Return(Locals(s).result)
       IN  ConcStep(s, [c EXCEPT !.pc = "done", !.outcome = out], Locals(s))

\* the code after the loop of stream s, run on the locals l: the tail check is
\* sent, or the generator ends
ConcAfterLoop(s, c, l) ==
    IF TailCheckNeeded(l.lastChunk, l.chunkCount, handle.chunkBatchSize)
    THEN ConcStep(s,
            [c EXCEPT !.pc = "tailCheck",
                      !.requests = Fetch(@, ResponseConditionRequest(handle,
                                        NewAIMessage(Str(l.accumulatedContent)),
                                        l.promptMsgs))],
            l)
    ELSE ConcStep(s, [c EXCEPT !.pc = "done", !.outcome = Return(Undefined)], l)

\* the underlying stream of call s delivers a fragment: it is counted and
\* accumulated; on a batch boundary the check is sent, otherwise the fragment
\* is yielded and the consumer asks for the next
ConcFragment(s, content) ==
    /\ conc.calls[s].pc = "next"
    /\ Len(conc.calls[s].source) < MaxFragments
    /\ LET c == conc.calls[s]
           ch == ModelChunk(content, Len(c.source) + 1)
           l == [Locals(s) EXCEPT !.chunk = ch,
                                  !.chunkCount = @ + 1,
                                  !.lastChunk = ch,
                                  !.accumulatedContent = Accumulate(@, ch)]
       IN  IF BatchBoundary(l.chunkCount, handle.chunkBatchSize)
           THEN ConcStep(s,
                    [c EXCEPT !.pc = "batchCheck", !.source = Append(@, ch),
                              !.requests = Fetch(@, ResponseConditionRequest(handle,
                                                NewAIMessage(Str(l.accumulatedContent)),
                                                l.promptMsgs))],
                    l)
           ELSE ConcStep(s,
                    [c EXCEPT !.source = Append(@, ch), !.emitted = Yield(@, ch)],
                    l)

\* the check at a batch boundary of stream s resolves
ConcBatchChecked(s, res) ==
    /\ conc.calls[s].pc = "batchCheck"
    /\ LET c == conc.calls[s]
           responseCheck == ResponseCondition(res)
       IN  IF responseCheck.kind = "throw"
           THEN ConcStep(s, [c EXCEPT !.pc = "done", !.outcome = responseCheck], Locals(s))
           ELSE IF responseCheck.value.shouldBlock
           THEN ConcAfterLoop(s,
                    [c EXCEPT !.emitted = Yield(@, NewAIMessageChunk(
                                              ResponseOverrideText(responseCheck.value)))],
                    Locals(s))
           ELSE ConcStep(s,
                    [c EXCEPT !.pc = "next", !.emitted = Yield(@, Locals(s).chunk)],
                    Locals(s))

\* the underlying stream of call s ends
ConcExhausted(s) ==
    /\ conc.calls[s].pc = "next"
    /\ ConcAfterLoop(s, conc.calls[s], Locals(s))

\* the tail check of stream s resolves
ConcTailChecked(s, res) ==
    /\ conc.calls[s].pc = "tailCheck"
    /\ LET c == conc.calls[s]
           responseCheck == ResponseCondition(res)
       IN  IF responseCheck.kind = "throw"
           THEN ConcStep(s, [c EXCEPT !.pc = "done", !.outcome = responseCheck], Locals(s))
           ELSE IF responseCheck.value.shouldBlock
           THEN ConcStep(s,
                    [c EXCEPT !.pc = "done",
                              !.emitted = Yield(@, NewAIMessageChunk(
                                              ResponseOverrideText(responseCheck.value))),
                              !.outcome = Return(Undefined)],
                    Locals(s))
           ELSE ConcStep(s, [c EXCEPT !.pc = "done", !.outcome = Return(Undefined)],
                         Locals(s))

NextConc ==
    \/ \E s \in Calls : ConcCall(s, "invoke")
    \/ \E s \in Calls : ConcCall(s, "stream")
    \/ \E s \in Calls : \E res \in ConcReplies : ConcPromptChecked(s, res)
    \/ \E s \in Calls : \E content \in ConcContents : ConcInvokeModelReturned(s, content)
    \/ \E s \in Calls : \E res \in ConcReplies : ConcInvokeResponseChecked(s, res)
    \/ \E s \in Calls : \E content \in ConcContents : ConcFragment(s, content)
    \/ \E s \in Calls : \E res \in ConcReplies : ConcBatchChecked(s, res)
    \/ \E s \in Calls : ConcExhausted(s)
    \/ \E s \in Calls : \E res \in ConcReplies : ConcTailChecked(s, res)

SpecConc == InitConc /\ [][NextConc]_vars

----------------------------------------------------------------------------
(* What the claims speak of *)

BlockingActions == {"block", "modify", "rephrase"}

\* the endpoint's reply carries a decision
Decides(res) == res.ok /\ res.body \in [action : Actions, revised_response : Revised]
Blocks(res) == Decides(res) /\ res.body.action \in BlockingActions
Passes(res) == Decides(res) /\ res.body.action = "passthrough"

\* the revised text of a reply, or the default when the reply carries none (null)
SuppliedOrDefault(res, default) ==
    IF res.body.revised_response = Null THEN Str(default) ELSE res.body.revised_response

\* the revised text of a reply, or the default when it is null or the empty string
NonEmptyOrDefault(res, default) ==
    IF res.body.revised_response \in {Null, Str("")}
    THEN Str(default)
    ELSE res.body.revised_response

\* m is an assistant message with this content
IsAssistantMessage(m, content) == m.cls = "AIMessage" /\ m.content = content

\* the prompt check of the invoke in progress has answered with a blocking action
InvokePromptBlocked ==
    self.kind = "invoke" /\ Len(requests) = 1 /\ Blocks(lastReply)

\* the prompt check of the invoke in progress has answered passthrough
InvokePromptPassed ==
    self.kind = "invoke" /\ (Len(requests) >= 2 \/ Passes(lastReply))

\* the batch size of the handle the call in progress was made on
B == self.handle.chunkBatchSize.v

\* fragments the underlying stream has yielded
F == Len(source)

RECURSIVE Text(_)
\* the concatenated text of a sequence of chunks
Text(chunks) ==
    IF chunks = << >> THEN ""
    ELSE Text(SubSeq(chunks, 1, Len(chunks) - 1)) \o chunks[Len(chunks)].content.v

\* c is a synthetic chunk with this content
IsOverrideChunk(c, content) ==
    c.cls = "AIMessageChunk" /\ c.by = "guard" /\ c.content = content

\* the guarded stream ran to its end: the prompt check passed, the underlying
\* stream completed normally, no check blocked or failed
StreamRanClean ==
    /\ self.kind = "stream"
    /\ pc = "done"
    /\ streamIter = "done"
    /\ outcome = Return(Undefined)
    /\ \A i \in 1..Len(emitted) : emitted[i].by = "model"

\* a response check at a batch boundary of the stream in progress has answered
\* with a blocking action
BatchCheckBlocked ==
    /\ self.kind = "stream"
    /\ checks >= 2
    /\ streamIter \in {"open", "closed"}
    /\ Blocks(lastReply)

\* the underlying invoke of the call in progress has returned a message
InvokeModelSucceeded == self.kind = "invoke" /\ underlying.kind = "return"

\* the underlying invoke of the call in progress has failed
InvokeModelFailed == self.kind = "invoke" /\ underlying.kind = "throw"

\* the underlying stream of the call in progress has completed normally
StreamCompleted == self.kind = "stream" /\ streamIter = "done"

\* the prompt check of the stream in progress has answered with a blocking action
StreamPromptBlocked ==
    self.kind = "stream" /\ checks = 1 /\ Blocks(lastReply)

\* the request of a response check on this text, for the prompt of request 1
ResponseRequestBody(text) ==
    [messages |-> requests[1].body.messages, response |-> text,
     validation_target |-> "response"]

\* the configuration of the base wrap with its defaults filled in
EffectiveConfig ==
    [projectId |-> config0.projectId,
     apiKey |-> config0.apiKey,
     chunkBatchSize |->
        IF config0.chunkBatchSize = Undefined THEN Num(200) ELSE config0.chunkBatchSize,
     baseUrl |->
        IF config0.baseUrl = Undefined
        THEN Str(<<"https://gr-prd.aporia.com">>)
        ELSE config0.baseUrl]

\* the validation URL of the base wrap
EffectiveUrl ==
    SelectSeq(EffectiveConfig.baseUrl.v, LAMBDA t : t # "/")
        \o <<"/", config0.projectId, "/", "validate">>

\* the last reply of the validation endpoint had a non-success status
HttpFailed == lastReply # NoReply /\ ~lastReply.ok

----------------------------------------------------------------------------
(* Claims *)

\* C1 as stated: on a blocking prompt check, invoke never calls the underlying
\* model and returns the revised text, or the default prompt override when the
\* check supplied no revised text (null).
C1_Original ==
    InvokePromptBlocked =>
        /\ modelCalls = << >>
        /\ outcome.kind = "return"
        /\ IsAssistantMessage(outcome.value, SuppliedOrDefault(lastReply, PROMPT_OVERRIDE))

\* C1 amended: on a blocking prompt check (block, modify, rephrase), invoke never
\* calls the underlying model and returns an assistant message whose content is
\* the revised text when that is a non-empty string, and the default prompt
\* override when the revised text is null or the empty string.
C1_PromptBlockShortCircuits ==
    InvokePromptBlocked =>
        /\ pc = "done"
        /\ modelCalls = << >>
        /\ underlying = Pending
        /\ outcome.kind = "return"
        /\ IsAssistantMessage(outcome.value, NonEmptyOrDefault(lastReply, PROMPT_OVERRIDE))

C1_Witness ==
    /\ InvokePromptBlocked
    /\ pc = "done"
    /\ lastReply.body = [action |-> "rephrase", revised_response |-> Str("")]
    /\ outcome = Return(NewAIMessage(Str(PROMPT_OVERRIDE)))

\* C2: once the prompt check of an invoke has answered passthrough, the
\* underlying invoke has been called exactly once, on the wrapped instance, with
\* the caller's input and options.
C2_PassthroughCallsUnderlyingOnce ==
    InvokePromptPassed =>
        modelCalls = << [op |-> "invoke", this |-> self.handle.target,
                         input |-> self.input, options |-> self.options] >>

C2_Witness ==
    /\ InvokePromptPassed
    /\ pc = "done"
    /\ Len(requests) = 2
    /\ self.options = Str("opts")
    /\ Len(modelCalls) = 1

\* C3: a guarded stream with batch size B whose prompt check passes, whose
\* underlying stream yields F fragments and completes normally, and in which no
\* response check blocks, emits exactly the F fragments in order and issues
\* ceil(F/B) response checks: one at each multiple of B on the text so far, and
\* one tail check on the whole text exactly when F >= 1 and F mod B # 0.
C3_CleanStreamEmitsAllAndChecksCeil ==
    StreamRanClean =>
        /\ emitted = source
        /\ checks - 1 = (F + B - 1) \div B
        /\ Len(requests) = checks
        /\ \A j \in 1..(F \div B) :
            /\ requests[1 + j].body.validation_target = "response"
            /\ requests[1 + j].body.response = Text(SubSeq(source, 1, j * B))
        /\ IF F >= 1 /\ F % B # 0
           THEN /\ checks - 1 = (F \div B) + 1
                /\ requests[checks].body.validation_target = "response"
                /\ requests[checks].body.response = Text(source)
           ELSE checks - 1 = F \div B

C3_Witness ==
    /\ StreamRanClean
    /\ B = 2
    /\ F = 3
    /\ checks = 3
    /\ emitted = source

\* C4 as stated: when the check at fragment count k*B blocks, the guarded
\* stream has emitted exactly k*B original fragments followed by one override
\* fragment, and no further fragment is consumed.
C4_Original ==
    BatchCheckBlocked =>
        /\ chunkCount % B = 0
        /\ Len(emitted) = chunkCount + 1
        /\ SubSeq(emitted, 1, chunkCount) = SubSeq(source, 1, chunkCount)
        /\ emitted[Len(emitted)].by = "guard"
        /\ F = chunkCount
        /\ pulls = chunkCount

\* C4 amended: when the check at fragment count k*B blocks, the guarded stream
\* has emitted exactly the k*B - 1 original fragments before the one that hit the
\* boundary, followed by exactly one override fragment (the k*B-th fragment is
\* withheld), and no further fragment is consumed from the underlying stream.
C4_BatchBlockEmitsPrefixThenOverride ==
    BatchCheckBlocked =>
        /\ chunkCount >= 1
        /\ chunkCount % B = 0
        /\ Len(emitted) = chunkCount
        /\ SubSeq(emitted, 1, chunkCount - 1) = SubSeq(source, 1, chunkCount - 1)
        /\ IsOverrideChunk(emitted[chunkCount], NonEmptyOrDefault(lastReply, RESPONSE_OVERRIDE))
        /\ F = chunkCount
        /\ pulls = chunkCount
        /\ pc \in {"stream:yieldOverride", "done"}

C4_Witness ==
    /\ BatchCheckBlocked
    /\ pc = "done"
    /\ streamIter = "closed"
    /\ B = 1
    /\ chunkCount = 2
    /\ Len(emitted) = 2
    /\ emitted[1] = source[1]
    /\ emitted[2].by = "guard"

\* C5: in an invoke whose prompt check passed and whose underlying call returned
\* X, exactly one response check is run, with target response, X's content as
\* response text and the prompt messages of the prompt check; the call returns X
\* itself when that check answers passthrough, and otherwise a new assistant
\* message carrying the revised text or the default response override.
C5_ResponseCheckOnResult ==
    InvokeModelSucceeded =>
        /\ pc \in {"invoke:responseCheck", "done"}
        /\ checks = 2
        /\ Len(requests) = 2
        /\ requests[1].body.validation_target = "prompt"
        /\ requests[2].body = ResponseRequestBody(underlying.value.content.v)
        /\ (pc = "done" /\ Passes(lastReply) => outcome = Return(underlying.value))
        /\ (pc = "done" /\ Blocks(lastReply) =>
                /\ outcome.kind = "return"
                /\ outcome.value.by = "guard"
                /\ IsAssistantMessage(outcome.value,
                                      NonEmptyOrDefault(lastReply, RESPONSE_OVERRIDE)))

C5_Witness ==
    /\ InvokeModelSucceeded
    /\ pc = "done"
    /\ lastReply.body = [action |-> "modify", revised_response |-> Null]
    /\ underlying.value.content = Str("a")
    /\ outcome = Return(NewAIMessage(Str(RESPONSE_OVERRIDE)))

\* C6: once the underlying stream has completed normally after F fragments: if
\* F >= 1 and F is not a multiple of the batch size, exactly one final response
\* check is run, on the concatenated text of all F fragments, and if it blocks
\* exactly one override chunk is emitted, as the last item; if F is a multiple
\* of the batch size or F = 0, no final check is run.
C6_TailCheck ==
    StreamCompleted =>
        IF F >= 1 /\ F % B # 0
        THEN /\ checks = 1 + (F \div B) + 1
             /\ Len(requests) = checks
             /\ requests[checks].body = ResponseRequestBody(Text(source))
             /\ pc \in {"stream:tailCheck", "stream:yieldTailOverride", "done"}
             /\ IF Blocks(lastReply)
                THEN /\ Len(emitted) = F + 1
                     /\ SubSeq(emitted, 1, F) = source
                     /\ IsOverrideChunk(emitted[F + 1],
                                        NonEmptyOrDefault(lastReply, RESPONSE_OVERRIDE))
                ELSE emitted = source
        ELSE /\ checks = 1 + (F \div B)
             /\ Len(requests) = checks
             /\ pc = "done"
             /\ emitted = source

C6_Witness ==
    /\ StreamCompleted
    /\ B = 2
    /\ F = 3
    /\ pc = "stream:yieldTailOverride"
    /\ Blocks(lastReply)
    /\ requests[3].body.response = "ab" \o "a"

\* C7: when the prompt check of a guarded stream answers block, modify or
\* rephrase, the guarded sequence is exactly one synthetic chunk carrying the
\* revised text (or the default prompt override) and then ends; the underlying
\* stream is never opened and no response check is issued.
C7_StreamPromptBlock ==
    StreamPromptBlocked =>
        /\ pc \in {"stream:yieldPromptOverride", "done"}
        /\ Len(emitted) = 1
        /\ IsOverrideChunk(emitted[1], NonEmptyOrDefault(lastReply, PROMPT_OVERRIDE))
        /\ modelCalls = << >>
        /\ underlying = Pending
        /\ streamIter = "none"
        /\ Len(requests) = 1
        /\ requests[1].body.validation_target = "prompt"
        /\ (pc = "done" => outcome.kind = "return")

C7_Witness ==
    /\ StreamPromptBlocked
    /\ pc = "done"
    /\ outcome = Return(Undefined)
    /\ lastReply.body = [action |-> "block", revised_response |-> Null]
    /\ emitted = << NewAIMessageChunk(Str(PROMPT_OVERRIDE)) >>

\* C8: after any sequence of bindTools / withConfig operations the resulting
\* handle wraps the new model instance with the projectId, apiKey, batch size
\* and base URL of the original wrap; its invoke and stream send the prompt
\* check first, to the original wrap's endpoint, and a blocking prompt check
\* short-circuits them without a call of the underlying model.
C8_DerivedHandlesGuarded ==
    /\ handle.target = Len(models)
    /\ [f \in {"projectId", "apiKey", "chunkBatchSize", "baseUrl"} |-> handle[f]]
            = EffectiveConfig
    /\ checks >= 1 =>
        /\ requests[1].url = EffectiveUrl
        /\ requests[1].apiKeyHeader = config0.apiKey
        /\ requests[1].body.validation_target = "prompt"
        /\ B = EffectiveConfig.chunkBatchSize.v
    /\ (self.kind \in {"invoke", "stream"} /\ Len(modelCalls) >= 1) =>
            checks >= 1 /\ lastReply # NoReply
    /\ InvokePromptBlocked \/ StreamPromptBlocked => modelCalls = << >>

C8_Witness ==
    /\ Len(models) = 3
    /\ models[2].via = "bindTools"
    /\ models[3].via = "withConfig"
    /\ config0.chunkBatchSize = Num(2)
    /\ config0.baseUrl # Undefined
    /\ InvokePromptBlocked
    /\ self.handle.target = 3
    /\ pc = "done"
    /\ modelCalls = << >>

\* C9: in an invoke whose prompt check passed, an underlying failure with code
\* content_filter makes the call return the fixed apology message; any other
\* underlying failure reaches the caller as the same error, and no response
\* check is run.
C9_ContentFilterApology ==
    InvokeModelFailed =>
        /\ pc = "done"
        /\ checks = 1
        /\ Len(requests) = 1
        /\ IF underlying.error.code = Str("content_filter")
           THEN /\ outcome.kind = "return"
                /\ IsAssistantMessage(outcome.value,
                        Str("I'm sorry, but I can't assist with that request."))
           ELSE outcome = Throw(underlying.error)

C9_Witness ==
    /\ InvokeModelFailed
    /\ underlying.error.code = Str("content_filter")
    /\ outcome.kind = "return"
    /\ Passes(lastReply)

\* C10: a non-success HTTP status from the validation endpoint makes the check
\* fail with an error carrying the status code and status text, and never
\* yields a decision: the guarded invoke or stream fails with that error and
\* produces no override content; one request is sent per check, none again.
C10_HttpFailurePropagates ==
    /\ Len(requests) = checks
    /\ HttpFailed =>
        /\ pc = "done"
        /\ outcome = Throw([name |-> "Error",
                            message |-> <<"Guardrails validation failed:",
                                          lastReply.status, lastReply.statusText>>])
        /\ \A i \in 1..Len(emitted) : emitted[i].by = "model"

C10_Witness ==
    /\ HttpFailed
    /\ self.kind = "invoke"
    /\ checks = 2
    /\ underlying.kind = "return"
    /\ outcome.kind = "throw"

----------------------------------------------------------------------------
(* Failures of the checks and of the underlying model *)

\* the last check failed: a non-success status or a body the schema rejects
ValidationFailed == lastReply # NoReply /\ ValidationResult(lastReply).kind = "throw"

\* the original fragments the consumer holds
Originals == SelectSeq(emitted, LAMBDA c : c.by = "model")

\* C11 as stated: when a check fails with a transport or schema failure the
\* failure surfaces as an exception and the caller has received no model
\* content from that call before the exception.
C11_Original ==
    ValidationFailed =>
        /\ outcome.kind = "throw"
        /\ emitted = << >>

\* C11 (amended): a failing check surfaces as the exception of the validation
\* client and produces nothing itself, neither an override nor the fragment
\* it was guarding.  A failing prompt check, and any failing check of invoke,
\* leaves the caller with no model content.  In a stream a failing
\* batch-boundary check comes after the fragments before the boundary were
\* delivered, and a failing tail check after every fragment was delivered.
C11_ValidationFailureSurfaces ==
    ValidationFailed =>
        /\ pc = "done"
        /\ outcome = ValidationResult(lastReply)
        /\ emitted = Originals
        /\ self.kind = "invoke" => emitted = << >>
        /\ self.kind = "stream" =>
            \/ /\ checks = 1
               /\ modelCalls = << >>
               /\ emitted = << >>
            \/ /\ checks > 1
               /\ F % B = 0
               /\ streamIter = "closed"
               /\ emitted = SubSeq(source, 1, F - 1)
            \/ /\ checks > 1
               /\ F % B # 0
               /\ streamIter = "done"
               /\ emitted = source

C11_Witness ==
    /\ ValidationFailed
    /\ self.kind = "stream"
    /\ outcome.kind = "throw"
    /\ checks = 2
    /\ F = 2
    /\ Len(emitted) = 1
    /\ emitted[1] = source[1]

\* the underlying model rejected a guarded stream: stream() itself, or its iteration
StreamModelRejected ==
    /\ self.kind = "stream"
    /\ pc = "done"
    /\ underlying.kind = "throw" \/ streamIter = "threw"

\* C12: a content-filter rejection raised by the underlying model during a
\* guarded stream (on opening it or while iterating it) is caught and
\* converted into the apology, never propagated to the consumer; every other
\* error of the underlying model propagates unchanged.
C12_Original ==
    StreamModelRejected =>
        /\ ~(outcome.kind = "throw" /\ IsContentFilter(outcome.error))
        /\ (underlying.kind = "throw" /\ ~IsContentFilter(underlying.error))
                => outcome = underlying

----------------------------------------------------------------------------
(* Validation before and after the underlying call *)

\* the guarded call ran to its own end and did not throw
NormalEnd == pc = "done" /\ outcome.kind = "return" /\ consumer # "stopped"

\* the underlying model produced content: a message, or at least one fragment
ProducedContent ==
    \/ self.kind = "invoke" /\ underlying.kind = "return"
    \/ self.kind = "stream" /\ Len(source) >= 1

GuardedCallRan == self.kind \in {"invoke", "stream"} /\ Len(modelCalls) >= 1

\* C13 as stated: whenever the underlying model was called and the guarded
\* call then completes normally, a prompt check completed before the
\* underlying call and at least one response check was run afterwards.
C13_Original ==
    (GuardedCallRan /\ NormalEnd) =>
        /\ checks >= 2
        /\ requests[1].body.validation_target = "prompt"
        /\ requests[2].body.validation_target = "response"

\* C13 (amended): the underlying model is called at most once per guarded
\* call and only after the prompt check, the first request of the call,
\* answered passthrough; every later request is a response check; and when
\* the model produced content (a message, or at least one fragment) and the
\* guarded call runs to its normal end, at least one response check was run.
\* A content-filter rejection turned into the apology, and a stream of no
\* fragments, end normally with no response check.
C13_PrePostValidation ==
    GuardedCallRan =>
        /\ Len(modelCalls) = 1
        /\ checks >= 1
        /\ requests[1].body.validation_target = "prompt"
        /\ requests[1].body.messages = ConvertMessages(promptMsgs)
        /\ checks = 1 => Passes(lastReply)
        /\ \A i \in 2..Len(requests) : requests[i].body.validation_target = "response"
        /\ (NormalEnd /\ ProducedContent) => checks >= 2

C13_Witness ==
    /\ GuardedCallRan
    /\ NormalEnd
    /\ self.kind = "stream"
    /\ Len(source) = 3
    /\ B = 2
    /\ checks = 3
    /\ Len(emitted) = 3

----------------------------------------------------------------------------
(* Pass-through of the other operations *)

\* C14: every operation of the guarded handle other than invoke, stream,
\* bindTools and withConfig passes through unchanged: it is executed once on
\* the original model instance, with that instance as its this and the
\* caller's arguments, and no validation request is sent.
C14_OthersPassThrough ==
    self.kind = "other" =>
        /\ requests = << >>
        /\ checks = 0
        /\ lastReply = NoReply
        /\ emitted = << >>
        /\ PropertyKind(self.prop) = "function" =>
            /\ modelCalls = << [op |-> self.prop, this |-> self.handle.target,
                                input |-> self.input, options |-> self.options] >>
            /\ outcome = underlying
        /\ PropertyKind(self.prop) # "function" =>
            /\ modelCalls = << >>
            /\ outcome.value.name = self.prop
            /\ outcome.value.of = self.handle.target

C14_Witness ==
    /\ self.kind = "other"
    /\ self.prop = "batch"
    /\ pc = "done"
    /\ Len(models) = 2
    /\ Len(modelCalls) = 1
    /\ modelCalls[1].this = 2

----------------------------------------------------------------------------
(* The text a batch-boundary check carries *)

\* the request of the check at the j-th batch boundary of the stream
BoundaryRequest(j) == requests[1 + j]

\* C15: the response check issued at a batch boundary (fragment count k*B)
\* carries the concatenated text of all fragments 1..k*B received so far, the
\* boundary fragment included, and the prompt messages of the stream's
\* prompt check.
C15_BoundaryCheckCarriesAllText ==
    self.kind = "stream" =>
        \A k \in 1..(F \div B) :
            /\ Len(requests) >= 1 + k
            /\ BoundaryRequest(k).body.validation_target = "response"
            /\ BoundaryRequest(k).body.response = Text(SubSeq(source, 1, k * B))
            /\ BoundaryRequest(k).body.messages = requests[1].body.messages
            /\ BoundaryRequest(k).body.messages = ConvertMessages(extractMessages(self.input))

C15_Witness ==
    /\ self.kind = "stream"
    /\ B = 1
    /\ F = 3
    /\ pc = "stream:batchCheck"
    /\ Len(requests) = 4
    /\ requests[3].body.response = "a" \o "b"
    /\ requests[4].body.response = "ab" \o "a"
    /\ requests[4].body.messages = requests[1].body.messages

----------------------------------------------------------------------------
(* Laziness of the guarded stream *)

\* a step of a guarded stream asks the underlying stream for a fragment only
\* when every fragment asked for so far has arrived and the last one is in the
\* consumer's hands; while a boundary check is in flight nothing is asked for,
\* nothing arrives, and the output grows only by the check resolving
LazyStep ==
    /\ pulls' > pulls =>
        /\ pulls' = pulls + 1
        /\ pulls = Len(source)
        /\ emitted' = emitted
        /\ pulls >= 1 =>
            /\ pc = "stream:yieldChunk"
            /\ Len(emitted) = pulls
            /\ emitted[pulls] = source[pulls]
    /\ pc = "stream:batchCheck" =>
        /\ pulls' = pulls
        /\ source' = source
        /\ requests' = requests
        /\ emitted' # emitted =>
            /\ lastReply' \in HttpReplies
            /\ pc' \in {"stream:yieldChunk", "stream:yieldOverride"}

\* while a boundary check is in flight the boundary fragment has not been
\* forwarded and no fragment beyond it has been asked for
CheckInFlightHoldsBack ==
    pc = "stream:batchCheck" =>
        /\ pulls = Len(source)
        /\ emitted = SubSeq(source, 1, Len(source) - 1)

\* C16: the guarded stream is cooperative and lazy: fragment i+1 is requested
\* from the underlying stream only after fragment i was yielded to and resumed
\* by the consumer, and while a batch-boundary check is in flight no fragment
\* is forwarded to the consumer and none is requested from the underlying stream.
C16_CooperativeLazy == [](CheckInFlightHoldsBack) /\ [][LazyStep]_vars

C16_Witness ==
    /\ self.kind = "stream"
    /\ B = 2
    /\ pulls = 3
    /\ pc = "stream:next"
    /\ checks = 2
    /\ emitted = source
    /\ Len(emitted) = 2

----------------------------------------------------------------------------
(* A consumer that stops iterating *)

\* a step that leaves the consumer stopped asks the underlying stream for
\* nothing, receives nothing, sends no validation request and produces nothing
StoppedStep ==
    consumer' = "stopped" =>
        /\ pulls' = pulls
        /\ source' = source
        /\ requests' = requests
        /\ checks' = checks
        /\ emitted' = emitted
        /\ modelCalls' = modelCalls

\* once the consumer has stopped, the guarded stream is over and the
\* underlying stream is not left open
StoppedIsOver ==
    consumer = "stopped" =>
        /\ pc = "done"
        /\ streamIter # "open"
        /\ Len(requests) = checks

\* C17: if the consumer of a guarded stream stops iterating after receiving
\* some fragment, then from that point on no further fragment is requested
\* from the underlying stream and no further validation request, neither a
\* batch-boundary check nor the tail check, is issued for that stream.
C17_StopRequestsNothingMore == [](StoppedIsOver) /\ [][StoppedStep]_vars

C17_Witness ==
    /\ consumer = "stopped"
    /\ self.kind = "stream"
    /\ B = 2
    /\ Len(source) = 1
    /\ emitted = source
    /\ pulls = 1
    /\ checks = 1
    /\ streamIter = "closed"

----------------------------------------------------------------------------
(* Shape of the output of a guarded stream, and what of it is unchecked *)

\* the output is the first n fragments of the underlying stream, as they are
PrefixOfSource(n) == n <= Len(source) /\ emitted = SubSeq(source, 1, n)

\* the output is the first n fragments followed by one override chunk
PrefixThenOverride(n) ==
    /\ n <= Len(source)
    /\ Len(emitted) = n + 1
    /\ SubSeq(emitted, 1, n) = SubSeq(source, 1, n)
    /\ emitted[n + 1].by = "guard"
    /\ emitted[n + 1].cls = "AIMessageChunk"

OutputShape ==
    self.kind = "stream" =>
        \E n \in 0..Len(source) : PrefixOfSource(n) \/ PrefixThenOverride(n)

\* within a call the output only grows, one chunk at a time, and never after
\* an override chunk
OutputStep ==
    emitted' # emitted =>
        \/ emitted' = << >>
        \/ /\ Len(emitted') = Len(emitted) + 1
           /\ SubSeq(emitted', 1, Len(emitted)) = emitted
           /\ emitted # << >> => emitted[Len(emitted)].by = "model"

\* C19: at every point of a guarded stream the sequence emitted so far is a
\* prefix of the underlying stream's fragments (the same chunks in the same
\* order, none skipped or duplicated), optionally followed by exactly one
\* override chunk; once an override chunk was emitted nothing more is.
C19_OutputShape == [](OutputShape) /\ [][OutputStep]_vars

C19_Witness ==
    /\ self.kind = "stream"
    /\ Len(source) = 3
    /\ PrefixThenOverride(3)
    /\ pc = "done"

\* C20: with batch size B >= 1, at every point of a guarded stream at most
\* B - 1 of the original fragments already emitted have text that no
\* response check answering passthrough has covered, and a fragment at a
\* batch boundary k*B is emitted only after the check on fragments 1..k*B
\* answered passthrough.
C20_ExposureBound ==
    self.kind = "stream" =>
        /\ B >= 1
        /\ covered <= Len(source)
        /\ Len(Originals) - covered <= B - 1
        /\ \A k \in 1..Len(Originals) : k % B = 0 => covered >= k

C20_Witness ==
    /\ self.kind = "stream"
    /\ B = 2
    /\ Len(Originals) = 3
    /\ covered = 2
    /\ pc = "stream:yieldChunk"

----------------------------------------------------------------------------
(* Calls in flight together *)

\* the requests a call sends when it runs alone, as far as its own input and
\* the fragments of its own underlying stream determine them
OwnPromptRequest(c) == PromptConditionRequest(handle, extractMessages(c.input))

OwnResponseRequest(c, n) ==
    ResponseConditionRequest(handle, NewAIMessage(Str(Text(SubSeq(c.source, 1, n)))),
                             extractMessages(c.input))

\* what a stream has sent and emitted is what it sends and emits alone: a
\* check at each of its own boundaries on its own text so far, the tail check
\* on its own whole text, and its own fragments in order
StreamAsIfAlone(c, l) ==
    LET n == Len(c.source)
        batch == handle.chunkBatchSize.v
        boundaries == n \div batch
    IN  /\ l.chunkCount = n
        /\ l.accumulatedContent = Text(c.source)
        /\ l.promptMsgs = extractMessages(c.input)
        /\ c.requests[1] = OwnPromptRequest(c)
        /\ \A k \in 1..boundaries : c.requests[1 + k] = OwnResponseRequest(c, k * batch)
        /\ Len(c.requests) \in {1 + boundaries, 2 + boundaries}
        /\ c.pc = "tailCheck" => Len(c.requests) = 2 + boundaries
        /\ c.pc \in {"promptCheck", "next", "batchCheck"} => Len(c.requests) = 1 + boundaries
        /\ Len(c.requests) = 2 + boundaries =>
            /\ n % batch # 0
            /\ c.requests[2 + boundaries] = OwnResponseRequest(c, n)
        /\ c.pc \in {"next", "tailCheck"} => c.emitted = c.source
        /\ c.pc = "batchCheck" => c.emitted = SubSeq(c.source, 1, n - 1)
        /\ \E m \in 0..n :
            \/ c.emitted = SubSeq(c.source, 1, m)
            \/ /\ Len(c.emitted) = m + 1
               /\ SubSeq(c.emitted, 1, m) = SubSeq(c.source, 1, m)
               /\ c.emitted[m + 1].by = "guard"

InvokeAsIfAlone(c, l) ==
    /\ l.promptMsgs = extractMessages(c.input)
    /\ l.chunkCount = 0
    /\ l.accumulatedContent = ""
    /\ c.requests[1] = OwnPromptRequest(c)
    /\ c.emitted = << >>
    /\ Len(c.requests) = IF c.source = << >> THEN 1 ELSE 2
    /\ c.source # << >> =>
        /\ l.result = c.source[1]
        /\ c.requests[2] = ResponseConditionRequest(handle, c.source[1],
                                                    extractMessages(c.input))

\* C18: guarded calls in flight together on one handle share no mutable
\* state: under every interleaving each stream's fragment counter and
\* accumulated text depend only on its own fragments, and the timing and text
\* of its checks and the chunks it emits are those of the call run alone.
C18_CallsShareNoState ==
    \A s \in Calls :
        LET c == conc.calls[s]
            l == conc.locals[s]
        IN  /\ c.kind = "stream" => StreamAsIfAlone(c, l)
            /\ c.kind = "invoke" => InvokeAsIfAlone(c, l)
            /\ c.kind = "none" => c = IdleCall /\ l = NoLocals

C18_Witness ==
    /\ conc.calls[1].kind = "stream"
    /\ conc.calls[2].kind = "stream"
    /\ handle.chunkBatchSize.v = 2
    /\ conc.calls[1].pc = "batchCheck"
    /\ Len(conc.calls[1].source) = 2
    /\ conc.calls[2].pc = "tailCheck"
    /\ Len(conc.calls[2].source) = 3
    /\ conc.calls[1].requests[2].body.response = "a" \o "b"
    /\ conc.calls[2].requests[3].body.response = "bb" \o "a"

----------------------------------------------------------------------------
(* A stream blocked at a batch boundary *)

\* the override chunks the consumer holds
Overrides == SelectSeq(emitted, LAMBDA c : c.by = "guard")

\* the response checks sent so far
ResponseRequests == SelectSeq(requests, LAMBDA r : r.body.validation_target = "response")

\* a stream blocked at fragment count k*B has sent k response checks, holds one
\* override chunk and is not waiting for a tail check
BlockedAtBoundary ==
    BatchCheckBlocked =>
        /\ F >= B
        /\ F % B = 0
        /\ Len(ResponseRequests) = F \div B
        /\ checks = 1 + (F \div B)
        /\ Len(requests) = checks
        /\ Len(Overrides) = 1
        /\ pc \in {"stream:yieldOverride", "done"}

\* while the stream stays blocked no request is sent and nothing is emitted
BlockedStep ==
    (BatchCheckBlocked /\ BatchCheckBlocked') =>
        /\ requests' = requests
        /\ checks' = checks
        /\ emitted' = emitted

\* C21: when the response check at a batch boundary k*B blocks a guarded
\* stream, exactly k response checks have been issued for the stream and none
\* is issued afterwards: the tail check never runs after a mid-stream block,
\* and the stream never emits two override chunks.
C21_BlockEndsChecks == [](BlockedAtBoundary) /\ [][BlockedStep]_vars

C21_Witness ==
    /\ BatchCheckBlocked
    /\ B = 1
    /\ F = 2
    /\ Len(ResponseRequests) = 2
    /\ Len(Overrides) = 1
    /\ pc = "done"
    /\ consumer = "iterating"

----------------------------------------------------------------------------
(* A failing prompt check *)

\* the prompt check, the only check of the call so far, failed
PromptCheckFailed ==
    /\ self.kind \in {"invoke", "stream"}
    /\ checks = 1
    /\ ValidationFailed

\* C22: if the prompt check of a guarded invoke or stream fails with a
\* transport or schema failure, the underlying model is never called, no
\* response check is issued, the stream emits no chunk, and the error of the
\* validation client reaches the caller.
C22_PromptFailureStopsCall ==
    PromptCheckFailed =>
        /\ pc = "done"
        /\ outcome.kind = "throw"
        /\ outcome = ValidationResult(lastReply)
        /\ modelCalls = << >>
        /\ underlying = Pending
        /\ streamIter = "none"
        /\ pulls = 0
        /\ Len(requests) = 1
        /\ requests[1].body.validation_target = "prompt"
        /\ emitted = << >>

C22_Witness ==
    /\ PromptCheckFailed
    /\ self.kind = "stream"
    /\ lastReply.ok
    /\ outcome = Throw([name |-> "ZodError"])
    /\ consumer = "iterating"

----------------------------------------------------------------------------
(* Decision and override text of a check *)

\* the call is waiting for the reply of a check
CheckInFlight ==
    pc \in {"invoke:promptCheck", "invoke:responseCheck", "stream:promptCheck",
            "stream:batchCheck", "stream:tailCheck"}

\* the newest check of the call was answered with a decision
CheckDecided ==
    /\ self.kind \in {"invoke", "stream"}
    /\ ~CheckInFlight
    /\ checks >= 1
    /\ Decides(lastReply)

\* the fixed default override of the phase the newest check belongs to
PhaseDefault == IF checks = 1 THEN PROMPT_OVERRIDE ELSE RESPONSE_OVERRIDE

\* the text of the override the newest check calls for
OverrideText == NonEmptyOrDefault(lastReply, PhaseDefault)

\* C23: the block decision of a check depends only on its action (blocked iff
\* block, modify or rephrase), and a blocked check is overridden with the
\* service's revised_response only when that is a non-empty string; null or
\* the empty string gives the fixed default of the phase, the prompt default
\* for prompt checks and the response default for response checks, in invoke
\* and in stream.
C23_DecisionAndOverrideText ==
    CheckDecided =>
        /\ lastReply.body.action \in BlockingActions =>
            /\ self.kind = "invoke" =>
                /\ pc = "done"
                /\ outcome = Return(NewAIMessage(OverrideText))
                /\ checks = 1 => modelCalls = << >>
            /\ self.kind = "stream" =>
                /\ Len(Overrides) = 1
                /\ IsOverrideChunk(emitted[Len(emitted)], OverrideText)
                /\ checks = 1 => modelCalls = << >> /\ Len(emitted) = 1
        /\ lastReply.body.action \notin BlockingActions =>
            /\ lastReply.body.action = "passthrough"
            /\ Overrides = << >>
            /\ Len(modelCalls) = 1
            /\ (self.kind = "invoke" /\ checks = 2) =>
                    outcome = Return(result) /\ result.by = "model"

C23_Witness ==
    /\ CheckDecided
    /\ self.kind = "stream"
    /\ lastReply.body.action = "modify"
    /\ lastReply.body.revised_response = Str("")
    /\ checks = 3
    /\ streamIter = "done"
    /\ emitted[Len(emitted)].content = Str(RESPONSE_OVERRIDE)

====
